---------------------------- MODULE Spec2Model ----------------------------
(***************************************************************************)
(* Model of the micro-ROV node firmware ("Arduino M"): the sketch in       *)
(* src/arduino-master/metal-detector/metal-detector.ino, lines 38-239.     *)
(*                                                                         *)
(* The node reads line-delimited JSON from the serial port, drives one     *)
(* thruster (Thr_M) and reports telemetry as JSON objects.  The Arduino    *)
(* core runs setup() once and then, forever, loop() followed by            *)
(* serialEvent() when bytes are waiting (comment at lines 223-227).        *)
(*                                                                         *)
(* Abstractions:                                                           *)
(*  - The serial byte stream is a stream of lexical units of the JSON      *)
(*    text (a brace, a quoted string, a number, ...) and of terminator     *)
(*    bytes; a unit arrives whole.                                         *)
(*  - A telemetry object is the sequence of its key/value entries, in the  *)
(*    order the sketch prints them.                                        *)
(*  - millis() is the true time since power-up modulo 2^MillisBits.  The   *)
(*    two reads of millis() in one pass of loop() (lines 210 and 215)      *)
(*    return the same value.                                               *)
(*  - Command values fit the int type of the target.                       *)
(***************************************************************************)
EXTENDS Integers, Sequences, FiniteSets, TLC

(***************************************************************************)
(* Program constants                                                       *)
(***************************************************************************)
maxValue == 1900
minValue == 1100
stoppedValue == 1500
\* "1 second limit" of the watchdog comparison
SafetyLimit == 1000
\* capacity of StaticJsonBuffer<50>
JsonBufferCapacity == 50
\* pin of the thruster
ThrusterPin == 3
\* inputString.reserve(30)
ReservedLineBytes == 30

\* The role codes an identity byte can hold (README, "Installation").
RoleCodes == {"T", "A", "M", "I"}

(***************************************************************************)
(* Bounds of the model                                                     *)
(***************************************************************************)
\* the clock stops advancing past this many ms since power-up
MaxTime == 3000
\* the host starts a transmission while fewer units than this are on the
\* way or unread
MaxBacklog == 1
\* Width of the millisecond counter.  The target's unsigned long has 32 bits;
\* the model keeps the arithmetic modulo 2^w with a smaller w whose range
\* still covers MaxTime, so that the counter does not wrap within a run.
MillisBits == 12
MillisModulus == 2 ^ MillisBits
\* Communication exercised alone: entries buffered between two flushes and
\* objects emitted in a run
MaxEntries == 2
MaxObjects == 2
\* counted runs: the host stops sending once loop() has found this many lines
MaxMessages == 2

\* Amounts by which time advances between two steps of the node: half the
\* safety limit (so that an elapsed time of exactly SafetyLimit occurs) and
\* just more than the safety limit.
TickSteps == {SafetyLimit \div 2, SafetyLimit + 1}

(***************************************************************************)
(* Serial input: lexical units and lines                                   *)
(***************************************************************************)
Punct(c) == [t |-> "punct", s |-> c, n |-> 0]
Str(s) == [t |-> "str", s |-> s, n |-> 0]
Num(n) == [t |-> "num", s |-> "", n |-> n]
Eol(c) == [t |-> "eol", s |-> c, n |-> 0]
LBrace == Punct("{")
RBrace == Punct("}")
Colon == Punct(":")
Comma == Punct(",")
LF == Eol("\n")
CR == Eol("\r")

\* {"key":v}
OneKeyLine(key, v) == <<LBrace, Str(key), Colon, Num(v), RBrace>>
\* {"k1":v1,"k2":v2}
TwoKeyLine(k1, v1, k2, v2) ==
    <<LBrace, Str(k1), Colon, Num(v1), Comma, Str(k2), Colon, Num(v2), RBrace>>
ThrMLine(v) == OneKeyLine("Thr_M", v)

\* Values a host sends for Thr_M: the two ends of the range and the nearest
\* values outside it.
InRangeValues == {minValue, maxValue}
OutOfRangeValues == {minValue - 1, maxValue + 1}
CommandValues == InRangeValues \cup OutOfRangeValues

\* Well-formed lines that carry no Thr_M key.
UnknownKeyLine == OneKeyLine("Thr_FP", 1500)
EmptyObjectLine == <<LBrace, RBrace>>
NoThrMLines == {UnknownKeyLine, EmptyObjectLine}
\* Well-formed lines with an unregistered key beside Thr_M, in both orders.
MixedLines == {TwoKeyLine("Thr_FP", 1500, "Thr_M", minValue),
               TwoKeyLine("Thr_M", maxValue, "Thr_FP", 1500)}
WellFormedLines ==
    {ThrMLine(v) : v \in CommandValues} \cup NoThrMLines \cup MixedLines

\* Lines that are not a JSON object: the empty line and an object cut short.
EmptyLine == <<>>
TruncatedLine == <<LBrace, Str("Thr_M"), Colon>>
MalformedLines == {EmptyLine, TruncatedLine}
\* A JSON object whose one key alone is longer than the decode buffer.
OversizedLine == OneKeyLine("Thr_MMMMMMMMMMMMMMMMMMMMMMMMMMMMMMMMMMMMMMMMMMMMMMMMMMM", 1600)
UnparsableLines == MalformedLines \cup {OversizedLine}

HostLines == WellFormedLines \cup UnparsableLines
Terminators == {<<LF>>, <<CR, LF>>}


(***************************************************************************)
(* serialEvent(): the line framer                                          *)
(***************************************************************************)
\* Index of the first terminator of a unit sequence, 0 when it has none.
FirstTerminator(units) ==
    IF \E i \in 1..Len(units) : units[i].t = "eol"
    THEN CHOOSE i \in 1..Len(units) :
            /\ units[i].t = "eol"
            /\ \A j \in 1..(i - 1) : units[j].t # "eol"
    ELSE 0

\* Faulty variant of serialEvent: the loop does not end at a terminator, so
\* the bytes behind it are appended as well.
serialEventGreedy(line, complete, avail) ==
    [inputString |-> line \o SelectSeq(avail, LAMBDA u : u.t # "eol"),
     stringComplete |-> complete \/ \E i \in 1..Len(avail) : avail[i].t = "eol",
     rest |-> <<>>]

\* Faulty variant of serialEvent: a line feed right behind a carriage return
\* is read with it, as one terminator.
serialEventCrLfAsOne(line, complete, avail) ==
    LET k == FirstTerminator(avail) IN
    IF k = 0
    THEN [inputString |-> line \o avail, stringComplete |-> complete, rest |-> <<>>]
    ELSE LET last == IF k < Len(avail) /\ avail[k] = CR /\ avail[k + 1] = LF
                     THEN k + 1 ELSE k
         IN [inputString |-> line \o SubSeq(avail, 1, k - 1),
             stringComplete |-> TRUE,
             rest |-> SubSeq(avail, last + 1, Len(avail))]

\* The while loop of serialEvent() on the waiting bytes `avail`: bytes are
\* appended to inputString up to the first terminator, which sets
\* stringComplete and ends the loop; bytes after it stay in the receive buffer.
serialEvent(line, complete, avail) ==
    LET k == FirstTerminator(avail) IN
    IF k = 0
    THEN [inputString |-> line \o avail, stringComplete |-> complete, rest |-> <<>>]
    ELSE [inputString |-> line \o SubSeq(avail, 1, k - 1),
          stringComplete |-> TRUE,
          rest |-> SubSeq(avail, k + 1, Len(avail))]

(***************************************************************************)
(* StaticJsonBuffer<50>::parseObject and JsonObject::operator[]            *)
(* (ArduinoJson 5, as the sketch uses it)                                  *)
(***************************************************************************)
RECURSIVE Digits(_)
Digits(n) == IF n < 10 THEN 1 ELSE 1 + Digits(n \div 10)

\* Bytes of the text of a unit.
UnitBytes(u) ==
    CASE u.t = "str" -> Len(u.s) + 2
      [] u.t = "num" -> Digits(u.n)
      [] OTHER -> 1

RECURSIVE LineBytes(_)
LineBytes(units) ==
    IF units = <<>> THEN 0 ELSE UnitBytes(Head(units)) + LineBytes(Tail(units))

\* Bytes a key or value takes in the decode buffer: the input is a String,
\* so the parser copies each key, string and number text there, with its
\* terminating zero.
CopyBytes(u) == IF u.t = "str" THEN Len(u.s) + 1 ELSE Digits(u.n) + 1

RECURSIVE PairsBytes(_)
PairsBytes(pairs) ==
    IF pairs = <<>> THEN 0
    ELSE CopyBytes(Str(Head(pairs).key)) + CopyBytes(Head(pairs).value)
         + PairsBytes(Tail(pairs))

\* Bytes of the decode buffer an object of these pairs takes on the 8-bit
\* target: the object, one node per pair, and the copied texts.
JsonBufferUsage(pairs) == 4 + 10 * Len(pairs) + PairsBytes(pairs)

InvalidObject == [success |-> FALSE, pairs |-> <<>>]

\* JsonObject::set: a key already present takes the new value.
SetPair(pairs, key, value) ==
    IF \E i \in 1..Len(pairs) : pairs[i].key = key
    THEN [i \in 1..Len(pairs) |->
            IF pairs[i].key = key THEN [key |-> key, value |-> value] ELSE pairs[i]]
    ELSE Append(pairs, [key |-> key, value |-> value])

\* The members of an object from unit i on: "key" : value, then , or }.
\* Whatever follows the closing brace is not read.
RECURSIVE ParseMembers(_, _, _)
ParseMembers(units, i, pairs) ==
    IF i + 3 > Len(units) THEN InvalidObject
    ELSE IF \/ units[i].t # "str"
            \/ units[i + 1] # Colon
            \/ units[i + 2].t \notin {"str", "num"}
         THEN InvalidObject
    ELSE LET next == SetPair(pairs, units[i].s, units[i + 2]) IN
         IF JsonBufferUsage(next) > JsonBufferCapacity THEN InvalidObject
         ELSE IF units[i + 3] = RBrace THEN [success |-> TRUE, pairs |-> next]
         ELSE IF units[i + 3] = Comma THEN ParseMembers(units, i + 4, next)
         ELSE InvalidObject

parseObject(units) ==
    IF Len(units) < 2 \/ units[1] # LBrace THEN InvalidObject
    ELSE IF units[2] = RBrace THEN [success |-> TRUE, pairs |-> <<>>]
    ELSE ParseMembers(units, 2, <<>>)

\* Faulty variant of the lookup: only the first member of the object is
\* looked at.
GetIntFirstMember(root, key) ==
    IF root.pairs # <<>> /\ root.pairs[1].key = key /\ root.pairs[1].value.t = "num"
    THEN root.pairs[1].value.n
    ELSE 0

\* root[key] converted to int: the number stored under the key, and 0 when
\* the key is absent or its value is no number.
GetInt(root, key) ==
    IF \E i \in 1..Len(root.pairs) : root.pairs[i].key = key
    THEN LET i == CHOOSE j \in 1..Len(root.pairs) : root.pairs[j].key = key
             v == root.pairs[i].value
         IN IF v.t = "num" THEN v.n ELSE 0
    ELSE 0

(***************************************************************************)
(* State                                                                   *)
(***************************************************************************)
VARIABLES
    eeprom,           \* EEPROM byte 0: the persisted role code
    pc,               \* "setup", "loop", "serialEvent" or "halted"
    clock,            \* ms since power-up
    wire,             \* units the host has sent that have not arrived yet
    rx,               \* units waiting in the serial receive buffer
    inputString,      \* the line being accumulated
    stringComplete,   \* a terminator has been received
    arduinoID,
    lastMessage,
    safetyActive,
    messageContents,  \* Communication: the buffered entries
    thr,              \* the Thruster object thr points to
    sent,             \* telemetry objects printed by the run of setup() or
                      \* loop() that has just ended, in order
    passStart,        \* thr, safetyActive and lastMessage when the pass began
    passLine,         \* the complete line the pass of loop() found
    passHadLine,      \* whether the pass of loop() found one
    nSetValue,        \* calls of setValue in the pass
    nWatchdog,        \* evaluations of the watchdog comparison in the pass
    episodeErrs,      \* timeout errors buffered since the last parsed message
    episodeOffs,      \* calls of turnOff since the last parsed message
    buffered,         \* Communication exercised alone: the entries handed to
                      \* bufferValue and bufferError since the last sendAll
    totalTimeouts,    \* counted runs: timeout errors emitted since power-up
    totalLines,       \* counted runs: complete lines found by loop() since power-up
    totalParsed,      \* counted runs: lines parsed by loop() since power-up
    totalSilences,    \* counted runs: silence episodes since power-up
    episodeSilent,    \* counted runs: the current episode has been counted
    lastMessageAt     \* counted runs: ms since power-up, not reduced to the
                      \* width of the counter, when lastMessage was last written

envVars == <<eeprom, pc, clock, wire, rx>>
nodeVars == <<inputString, stringComplete, arduinoID, lastMessage, safetyActive,
              messageContents, thr, sent>>
runVars == <<totalTimeouts, totalLines, totalParsed, totalSilences, episodeSilent,
             lastMessageAt>>
obsVars == <<passStart, passLine, passHadLine, nSetValue, nWatchdog, episodeErrs, episodeOffs,
             buffered, runVars>>
vars == <<envVars, nodeVars, obsVars>>

\* millis()
Millis == clock % MillisModulus

(***************************************************************************)
(* Telemetry texts                                                         *)
(***************************************************************************)
StatusBooting == "Arduino Booting."
StatusActive == "Arduino Active."
ErrWrongArduino == "You are attempting to run Arduino M code on a different Arduino"
ErrOutOfRange == "Incoming value out of range."
ErrParsing == "JSON parsing failed."
ErrTimeout == "No incoming data received for more than 1 second. Switching all devices off"

Entry(key, value) == [key |-> key, val |-> value]
\* ,"error_<role>":"<message>" with the role read from the EEPROM
ErrorKey == "error_" \o eeprom
StatusKey == "status_" \o eeprom

(***************************************************************************)
(* The firmware's state as one record, for the operators that model its    *)
(* functions: each takes the state before the call and gives the state     *)
(* after it.                                                               *)
(***************************************************************************)
Node ==
    [inputString |-> inputString, stringComplete |-> stringComplete,
     arduinoID |-> arduinoID, lastMessage |-> lastMessage,
     safetyActive |-> safetyActive, messageContents |-> messageContents,
     thr |-> thr, sent |-> sent,
     nSetValue |-> nSetValue, nWatchdog |-> nWatchdog,
     episodeErrs |-> episodeErrs, episodeOffs |-> episodeOffs]

Becomes(n) ==
    /\ inputString' = n.inputString
    /\ stringComplete' = n.stringComplete
    /\ arduinoID' = n.arduinoID
    /\ lastMessage' = n.lastMessage
    /\ safetyActive' = n.safetyActive
    /\ messageContents' = n.messageContents
    /\ thr' = n.thr
    /\ sent' = n.sent
    /\ nSetValue' = n.nSetValue
    /\ nWatchdog' = n.nWatchdog
    /\ episodeErrs' = n.episodeErrs
    /\ episodeOffs' = n.episodeOffs

(***************************************************************************)
(* class Communication                                                     *)
(***************************************************************************)
bufferValue(n, device, incomingValue) ==
    [n EXCEPT !.messageContents = Append(@, Entry(device, incomingValue))]

\* Faulty variant of bufferError: the key names a fixed role.
bufferErrorFixedRole(n, errorMessage) ==
    [n EXCEPT !.messageContents = Append(@, Entry("error_T", errorMessage))]

bufferError(n, errorMessage) ==
    [n EXCEPT !.messageContents = Append(@, Entry(ErrorKey, errorMessage))]

sendStatus(n, status) ==
    [n EXCEPT !.sent = Append(@, <<Entry("deviceID", n.arduinoID),
                                   Entry(StatusKey, status)>>)]

\* Faulty variant of sendAll: the buffer is not cleared.
sendAllKeepsBuffer(n) ==
    [n EXCEPT !.sent = Append(@, <<Entry("deviceID", n.arduinoID)>>
                                    \o n.messageContents)]

sendAll(n) ==
    [n EXCEPT !.sent = Append(@, <<Entry("deviceID", n.arduinoID)>>
                                    \o n.messageContents),
              !.messageContents = <<>>]

(***************************************************************************)
(* class Thruster                                                          *)
(***************************************************************************)
\* thr before setup() has created the object: a null pointer.  The numbers
\* are the in-class initialisers of the fields.
NoThruster ==
    [created |-> FALSE, partID |-> "part ID not set", pin |-> 0,
     maxValue |-> 0, minValue |-> 0, currentValue |-> 0, micros |-> 0]

\* The constructor; micros is the pulse width last written to the ESC.
Thruster(inputPin, incomingPartID) ==
    [created |-> TRUE, partID |-> incomingPartID, pin |-> inputPin,
     maxValue |-> maxValue, minValue |-> minValue,
     currentValue |-> stoppedValue, micros |-> stoppedValue]

\* Faulty variants of setValue: without the range check, with the ends of
\* the range excluded, and stopping the thruster on a rejected value.
setValueUnchecked(n, inputValue) ==
    [n EXCEPT !.thr.currentValue = inputValue, !.thr.micros = inputValue]

setValueExclusive(n, inputValue) ==
    IF inputValue <= n.thr.minValue \/ inputValue >= n.thr.maxValue
    THEN bufferError(n, ErrOutOfRange)
    ELSE [n EXCEPT !.thr.currentValue = inputValue, !.thr.micros = inputValue]

setValueStopOnReject(n, inputValue) ==
    IF inputValue < n.thr.minValue \/ inputValue > n.thr.maxValue
    THEN bufferError([n EXCEPT !.thr.currentValue = stoppedValue,
                               !.thr.micros = stoppedValue], ErrOutOfRange)
    ELSE [n EXCEPT !.thr.currentValue = inputValue, !.thr.micros = inputValue]

setValue(n, inputValue) ==
    IF inputValue < n.thr.minValue \/ inputValue > n.thr.maxValue
    THEN bufferError(n, ErrOutOfRange)
    ELSE [n EXCEPT !.thr.currentValue = inputValue, !.thr.micros = inputValue]

turnOff(n) ==
    [n EXCEPT !.thr.currentValue = stoppedValue, !.thr.micros = stoppedValue]

\* The record of a pass when no pass has just ended.
NoPass == [thr |-> NoThruster, safetyActive |-> FALSE, lastMessage |-> 0]

(***************************************************************************)
(* setup()                                                                 *)
(***************************************************************************)
\* Faulty variant of the identity check: any provisioned role is accepted.
IdentityMismatchAnyRole(id) == id \notin {"Ard_" \o r : r \in RoleCodes}

\* The identity check of setup(): any identity but Ard_M is fatal.
IdentityMismatch(id) == id # "Ard_M"

\* setup() up to the identity check.
setupBoot(n) == sendStatus([n EXCEPT !.arduinoID = "Ard_" \o eeprom], StatusBooting)

\* Faulty variant of the fatal branch: the buffered error is flushed.
setupHaltFlushed(n) == sendAll(bufferError(n, ErrWrongArduino))

\* The fatal branch: the error is buffered and the sketch spins in while(true){}.
setupHalt(n) == bufferError(n, ErrWrongArduino)

\* Faulty variant of the rest of setup(): the status is printed before the
\* flush.
setupActivateStatusFirst(n) ==
    sendAll(sendStatus([n EXCEPT !.thr = Thruster(ThrusterPin, "Thr_M")], StatusActive))

\* The rest of setup().
setupActivate(n) ==
    sendStatus(sendAll([n EXCEPT !.thr = Thruster(ThrusterPin, "Thr_M")]), StatusActive)

(***************************************************************************)
(* loop()                                                                  *)
(***************************************************************************)
\* Faulty variant of parseFailed: the thruster is stopped as well.
parseFailedTurnsOff(n) ==
    [sendAll(bufferError(turnOff(n), ErrParsing)) EXCEPT
        !.inputString = <<>>, !.stringComplete = FALSE]

\* The branch of a line that does not parse: report, clear the line, return.
parseFailed(n) ==
    [sendAll(bufferError(n, ErrParsing)) EXCEPT
        !.inputString = <<>>, !.stringComplete = FALSE]

\* Faulty variant of dispatch: the watchdog is re-armed only by a message
\* whose value is accepted.
dispatchArmOnAccept(n, root, now) ==
    LET v == GetInt(root, "Thr_M")
        accepted == v >= n.thr.minValue /\ v <= n.thr.maxValue
        armed == IF accepted
                 THEN [n EXCEPT !.safetyActive = FALSE,
                                !.episodeErrs = 0, !.episodeOffs = 0]
                 ELSE n
        acted == [setValue(armed, v) EXCEPT !.nSetValue = @ + 1]
    IN [sendAll(acted) EXCEPT
           !.inputString = <<>>, !.stringComplete = FALSE, !.lastMessage = now]

\* Faulty variant of dispatch: safetyActive is left as it is.
dispatchKeepsSafety(n, root, now) ==
    LET acted == IF n.arduinoID = "Ard_M"
                 THEN [setValue(n, GetInt(root, "Thr_M")) EXCEPT !.nSetValue = @ + 1]
                 ELSE bufferError(n, ErrWrongArduino)
    IN [sendAll(acted) EXCEPT
           !.inputString = <<>>, !.stringComplete = FALSE, !.lastMessage = now]

\* The branch of a line that parses, up to the update of lastMessage.
dispatch(n, root, now) ==
    LET armed == [n EXCEPT !.safetyActive = FALSE,
                           !.episodeErrs = 0, !.episodeOffs = 0]
        acted == IF armed.arduinoID = "Ard_M"
                 THEN [setValue(armed, GetInt(root, "Thr_M")) EXCEPT
                          !.nSetValue = @ + 1]
                 ELSE bufferError(armed, ErrWrongArduino)
    IN [sendAll(acted) EXCEPT
           !.inputString = <<>>, !.stringComplete = FALSE, !.lastMessage = now]

\* Faulty variant of the comparison: the safety flag is not consulted.
TooLongEveryPass(now, last, active) ==
    ((now - last) % MillisModulus) > SafetyLimit

\* Faulty variant of the comparison: an elapsed time equal to the limit trips.
TooLongInclusive(now, last, active) ==
    ((now - last) % MillisModulus) >= SafetyLimit /\ ~active

\* Faulty variant of the comparison: the difference is not reduced to the
\* width of the counter.
TooLongNoWrap(now, last, active) ==
    (now - last) > SafetyLimit /\ ~active

\* The comparison of the watchdog.
TooLong(now, last, active) ==
    ((now - last) % MillisModulus) > SafetyLimit /\ ~active

\* Faulty variant of the watchdog: the timeout error is left in the buffer.
watchdogNoFlush(n, now) ==
    LET checked == [n EXCEPT !.nWatchdog = @ + 1] IN
    IF TooLong(now, n.lastMessage, n.safetyActive)
    THEN [turnOff(bufferError([checked EXCEPT !.safetyActive = TRUE], ErrTimeout))
            EXCEPT !.episodeErrs = @ + 1, !.episodeOffs = @ + 1]
    ELSE checked

\* The watchdog at the end of loop().
watchdog(n, now) ==
    LET checked == [n EXCEPT !.nWatchdog = @ + 1] IN
    IF TooLong(now, n.lastMessage, n.safetyActive)
    THEN [turnOff(sendAll(bufferError([checked EXCEPT !.safetyActive = TRUE],
                                      ErrTimeout)))
            EXCEPT !.episodeErrs = @ + 1, !.episodeOffs = @ + 1]
    ELSE checked

\* Faulty variant of loop: the watchdog is evaluated before the message is
\* dispatched.
loopWatchdogFirst(n, now) ==
    IF n.stringComplete
    THEN LET root == parseObject(n.inputString) IN
         IF ~root.success
         THEN parseFailed(n)
         ELSE dispatch(watchdog(n, now), root, now)
    ELSE watchdog(n, now)

\* One pass of loop() at time now.
loop(n, now) ==
    IF n.stringComplete
    THEN LET root == parseObject(n.inputString) IN
         IF ~root.success
         THEN parseFailed(n)
         ELSE watchdog(dispatch(n, root, now), now)
    ELSE watchdog(n, now)

(***************************************************************************)
(* Initial state and actions                                               *)
(***************************************************************************)
Init ==
    /\ eeprom \in RoleCodes
    /\ pc = "setup"
    /\ clock = 0
    /\ wire = <<>>
    /\ rx = <<>>
    /\ inputString = <<>>
    /\ stringComplete = FALSE
    /\ arduinoID = ""
    /\ lastMessage = 0
    /\ safetyActive = FALSE
    /\ messageContents = <<>>
    /\ thr = NoThruster
    /\ sent = <<>>
    /\ passStart = NoPass
    /\ passLine = <<>>
    /\ passHadLine = FALSE
    /\ nSetValue = 0
    /\ nWatchdog = 0
    /\ episodeErrs = 0
    /\ episodeOffs = 0
    /\ buffered = <<>>
    /\ totalTimeouts = 0
    /\ totalLines = 0
    /\ totalParsed = 0
    /\ totalSilences = 0
    /\ episodeSilent = FALSE
    /\ lastMessageAt = 0

\* setup() runs once; on an identity mismatch it never returns.
Setup ==
    /\ pc = "setup"
    /\ LET booted == setupBoot(Node) IN
       IF IdentityMismatch(booted.arduinoID)
       THEN Becomes(setupHalt(booted)) /\ pc' = "halted"
       ELSE Becomes(setupActivate(booted)) /\ pc' = "loop"
    /\ UNCHANGED <<eeprom, clock, wire, rx, passStart, passLine, passHadLine, buffered,
                   runVars>>

\* One pass of loop().
LoopBody ==
    /\ pc = "loop"
    /\ Becomes(loop([Node EXCEPT !.sent = <<>>, !.nSetValue = 0, !.nWatchdog = 0],
                    Millis))
    /\ passStart' = [thr |-> thr, safetyActive |-> safetyActive,
                     lastMessage |-> lastMessage]
    /\ passHadLine' = stringComplete
    /\ passLine' = IF stringComplete THEN inputString ELSE <<>>
    /\ pc' = "serialEvent"
    /\ UNCHANGED <<eeprom, clock, wire, rx, buffered>>

Loop == LoopBody /\ UNCHANGED runVars

\* After each pass of loop() the core calls serialEvent() if bytes wait.
\* What the pass printed has left the node by then: the record of the pass
\* (sent, passLine, ...) describes the states between the end of a pass and
\* this step, and is cleared here.
SerialEventRun ==
    /\ pc = "serialEvent"
    /\ LET r == IF rx # <<>>
                THEN serialEvent(inputString, stringComplete, rx)
                ELSE [inputString |-> inputString,
                      stringComplete |-> stringComplete, rest |-> rx]
       IN /\ inputString' = r.inputString
          /\ stringComplete' = r.stringComplete
          /\ rx' = r.rest
    /\ pc' = "loop"
    /\ sent' = <<>>
    /\ passStart' = NoPass
    /\ passLine' = <<>>
    /\ passHadLine' = FALSE
    /\ nSetValue' = 0
    /\ nWatchdog' = 0
    /\ UNCHANGED <<eeprom, clock, wire, arduinoID, lastMessage, safetyActive,
                   messageContents, thr, episodeErrs, episodeOffs, buffered, runVars>>

\* Units still on the way or unread.
Backlog == Len(wire) + Len(rx)

\* The host sends a line and its terminator; the first k units arrive at
\* once, the others later.  The receive buffer is read only by serialEvent()
\* and the clock only by loop(), so bytes that arrive, and time that passes,
\* at any point between two calls of serialEvent() are the same to the node
\* as bytes and time just before the pass of loop() between them: the host
\* and the clock step there.
HostSend(line, term, k) ==
    /\ pc = "loop"
    /\ Backlog < MaxBacklog
    /\ LET all == line \o term IN
       /\ k \in 1..Len(all)
       /\ rx' = rx \o SubSeq(all, 1, k)
       /\ wire' = wire \o SubSeq(all, k + 1, Len(all))
    /\ UNCHANGED <<eeprom, pc, clock, nodeVars, obsVars>>

\* The units still on the way arrive.
Arrive ==
    /\ pc = "loop"
    /\ wire # <<>>
    /\ rx' = rx \o wire
    /\ wire' = <<>>
    /\ UNCHANGED <<eeprom, pc, clock, nodeVars, obsVars>>

\* Time passes.
Tick(d) ==
    /\ pc = "loop"
    /\ clock + d <= MaxTime
    /\ clock' = clock + d
    /\ UNCHANGED <<eeprom, pc, wire, rx, nodeVars, obsVars>>

\* Where a transmission may be split in two.
SplitPoints(line, term) == {1, Len(line) + Len(term)}

Next ==
    \/ Setup
    \/ Loop
    \/ SerialEventRun
    \/ \E line \in HostLines, term \in Terminators :
          \E k \in SplitPoints(line, term) : HostSend(line, term, k)
    \/ Arrive
    \/ \E d \in TickSteps : Tick(d)

Spec == Init /\ [][Next]_vars

\* The specification of the liveness properties: the same node with a host
\* that sends a command at the top of the range or an empty line, each ended
\* by a line feed.  The core calls loop() and serialEvent() forever once
\* setup() has returned; nothing is assumed of the host or of the clock.
LiveLines == {ThrMLine(maxValue), EmptyLine}

LiveNext ==
    \/ Setup
    \/ Loop
    \/ SerialEventRun
    \/ \E line \in LiveLines :
          \E k \in SplitPoints(line, <<LF>>) : HostSend(line, <<LF>>, k)
    \/ Arrive
    \/ \E d \in TickSteps : Tick(d)

FairSpec ==
    /\ Init /\ [][LiveNext]_vars
    /\ WF_vars(Setup) /\ WF_vars(Loop) /\ WF_vars(SerialEventRun)

\* The node with a host that sends two lines back to back, so that bytes of
\* the second line wait in the receive buffer behind the terminator of the
\* first.
BurstLines == {ThrMLine(maxValue), TruncatedLine, EmptyLine}

HostBurst(first, second, term) ==
    /\ pc = "loop"
    /\ Backlog = 0
    /\ rx' = first \o term \o second \o term
    /\ UNCHANGED <<eeprom, pc, clock, wire, nodeVars, obsVars>>

BurstNext ==
    \/ Setup
    \/ Loop
    \/ SerialEventRun
    \/ \E first \in BurstLines, second \in BurstLines, term \in Terminators :
          HostBurst(first, second, term)
    \/ \E d \in TickSteps : Tick(d)

BurstSpec == Init /\ [][BurstNext]_vars

(***************************************************************************)
(* class Communication exercised alone: any sequence of calls of its four  *)
(* functions, on a node of any role whose arduinoID has been set           *)
(* (line 166).  pc names the last call.                                    *)
(***************************************************************************)
\* Values and errors handed to the buffer.
CommValues == {Entry("Thr_M", "1900")}
CommErrors == {ErrOutOfRange}
CommStatuses == {StatusActive}

CommInit ==
    /\ eeprom \in RoleCodes
    /\ pc = "Communication"
    /\ clock = 0
    /\ wire = <<>>
    /\ rx = <<>>
    /\ inputString = <<>>
    /\ stringComplete = FALSE
    /\ arduinoID = "Ard_" \o eeprom
    /\ lastMessage = 0
    /\ safetyActive = FALSE
    /\ messageContents = <<>>
    /\ thr = NoThruster
    /\ sent = <<>>
    /\ passStart = NoPass
    /\ passLine = <<>>
    /\ passHadLine = FALSE
    /\ nSetValue = 0
    /\ nWatchdog = 0
    /\ episodeErrs = 0
    /\ episodeOffs = 0
    /\ buffered = <<>>
    /\ totalTimeouts = 0
    /\ totalLines = 0
    /\ totalParsed = 0
    /\ totalSilences = 0
    /\ episodeSilent = FALSE
    /\ lastMessageAt = 0

CommFrame ==
    UNCHANGED <<eeprom, clock, wire, rx, passStart, passLine, passHadLine, runVars>>

CommBufferValue(e) ==
    /\ Len(buffered) < MaxEntries
    /\ Becomes(bufferValue(Node, e.key, e.val))
    /\ buffered' = Append(buffered, e)
    /\ pc' = "bufferValue"
    /\ CommFrame

CommBufferError(errorMessage) ==
    /\ Len(buffered) < MaxEntries
    /\ Becomes(bufferError(Node, errorMessage))
    /\ buffered' = Append(buffered, Entry(ErrorKey, errorMessage))
    /\ pc' = "bufferError"
    /\ CommFrame

CommSendStatus(status) ==
    /\ Len(sent) < MaxObjects
    /\ Becomes(sendStatus(Node, status))
    /\ pc' = "sendStatus"
    /\ buffered' = buffered
    /\ CommFrame

CommSendAll ==
    /\ Len(sent) < MaxObjects
    /\ Becomes(sendAll(Node))
    /\ buffered' = <<>>
    /\ pc' = "sendAll"
    /\ CommFrame

CommNext ==
    \/ \E e \in CommValues : CommBufferValue(e)
    \/ \E errorMessage \in CommErrors : CommBufferError(errorMessage)
    \/ \E status \in CommStatuses : CommSendStatus(status)
    \/ CommSendAll

CommSpec == CommInit /\ [][CommNext]_vars

(***************************************************************************)
(* Vocabulary of the properties                                            *)
(***************************************************************************)
\* A pass of loop() has just ended: sent, passStart, passLine, passHadLine,
\* nSetValue and nWatchdog describe it.
PassDone == pc = "serialEvent"

\* The pass that has just ended found this complete line.
Processed(line) == PassDone /\ passHadLine /\ passLine = line

\* The in-range and out-of-range values of the README (1100 to 1900).
InRange(v) == 1100 <= v /\ v <= 1900

\* The Thr_M value each well-formed line of the model carries.
ThrMCommands ==
    {[line |-> ThrMLine(v), v |-> v] : v \in CommandValues}
    \cup {[line |-> TwoKeyLine("Thr_FP", 1500, "Thr_M", minValue), v |-> minValue],
          [line |-> TwoKeyLine("Thr_M", maxValue, "Thr_FP", 1500), v |-> maxValue]}

\* The entries of a telemetry object with this key.
EntriesWithKey(object, key) == {i \in 1..Len(object) : object[i].key = key}
\* The telemetry objects of the pass that hold an entry key -> value.
ObjectsWith(key, value) ==
    {i \in 1..Len(sent) :
        \E j \in 1..Len(sent[i]) : sent[i][j] = Entry(key, value)}

\* Time since the last parsed message, as the watchdog computes it.
Elapsed == (Millis - lastMessage) % MillisModulus

(***************************************************************************)
(* C1: The thruster's value is always within 1100..1900: once the thruster *)
(* exists, its current value and the pulse last written to the ESC are in  *)
(* that range, and before it exists nothing has been written.              *)
(***************************************************************************)
C1_ValueInRange ==
    IF thr.created
    THEN InRange(thr.currentValue) /\ InRange(thr.micros)
    ELSE thr.micros = 0

\* An out-of-range command met a thruster running at full reverse.
C1_Witness ==
    /\ Processed(ThrMLine(1901))
    /\ passStart.thr.currentValue = 1100
    /\ thr.currentValue = 1100

(***************************************************************************)
(* C2: A pass that processes a well-formed message with an in-range Thr_M  *)
(* value v leaves the thruster's current value (and the pulse written) at  *)
(* exactly v, whatever the value before and whether or not the watchdog    *)
(* was tripped.                                                            *)
(***************************************************************************)
C2_InRangeApplied ==
    \A c \in ThrMCommands :
        (Processed(c.line) /\ InRange(c.v)) =>
            (thr.currentValue = c.v /\ thr.micros = c.v)

\* The upper end of the range is applied to a thruster the watchdog had
\* stopped.
C2_Witness ==
    /\ Processed(ThrMLine(1900))
    /\ passStart.safetyActive
    /\ passStart.thr.currentValue = 1500
    /\ thr.currentValue = 1900

(***************************************************************************)
(* C3: A pass that processes a well-formed message with an in-range Thr_M  *)
(* value v emits a telemetry object that holds deviceID "Ard_M", an entry  *)
(* "Thr_M" with v echoed, and no error key.                                *)
(***************************************************************************)
C3_ValueEchoed ==
    \A c \in ThrMCommands :
        (Processed(c.line) /\ InRange(c.v)) =>
            \E i \in 1..Len(sent) :
                /\ sent[i][1] = Entry("deviceID", "Ard_M")
                /\ EntriesWithKey(sent[i], "Thr_M") # {}
                /\ \A j \in EntriesWithKey(sent[i], "Thr_M") :
                      sent[i][j].val = ToString(c.v)
                /\ EntriesWithKey(sent[i], "error_M") = {}

(***************************************************************************)
(* C4: A pass that processes a well-formed message with an out-of-range    *)
(* Thr_M value leaves the thruster as it was before the pass and emits one *)
(* telemetry object, with exactly one error_M entry: the out-of-range      *)
(* message.                                                                *)
(***************************************************************************)
C4_OutOfRangeRejected ==
    \A c \in ThrMCommands :
        (Processed(c.line) /\ ~InRange(c.v)) =>
            /\ thr = passStart.thr
            /\ Len(sent) = 1
            /\ Cardinality(EntriesWithKey(sent[1], "error_M")) = 1
            /\ \A j \in EntriesWithKey(sent[1], "error_M") :
                  sent[1][j].val = ErrOutOfRange

\* A value just above the range left a thruster at full forward where it was.
C4_Witness ==
    /\ Processed(ThrMLine(1901))
    /\ passStart.thr.currentValue = 1900
    /\ thr.currentValue = 1900
    /\ sent = << <<Entry("deviceID", "Ard_M"), Entry("error_M", ErrOutOfRange)>> >>

(***************************************************************************)
(* C5: If no valid message arrives for more than 1000 ms, the thruster is  *)
(* forced to 1500 exactly once and the timeout error is emitted exactly    *)
(* once for that silence episode (from a parsed message, or from boot, to  *)
(* the next parsed message): whenever a pass of loop() ends with more than *)
(* 1000 ms elapsed since the last parsed message, the watchdog is tripped, *)
(* the thruster is at 1500, and the episode has seen exactly one timeout   *)
(* error and one call of turnOff.                                          *)
(***************************************************************************)
C5_TripExactlyOnce ==
    /\ episodeErrs <= 1 /\ episodeOffs <= 1
    /\ (PassDone /\ Elapsed > 1000) =>
          /\ safetyActive
          /\ episodeErrs = 1 /\ episodeOffs = 1
          /\ thr.currentValue = 1500 /\ thr.micros = 1500

\* The half of C5 that the sketch keeps: within an episode the timeout error
\* and turnOff never occur twice, they have occurred exactly when the
\* watchdog is tripped, the pass that trips emits one timeout error and a
\* later pass of the episode emits none.
NoRepeatedTrip ==
    /\ episodeErrs <= 1 /\ episodeOffs <= 1
    /\ safetyActive <=> (episodeErrs = 1 /\ episodeOffs = 1)
    /\ (PassDone /\ nWatchdog = 1 /\ Elapsed > 1000) =>
          (safetyActive /\ thr.currentValue = 1500 /\ thr.micros = 1500)
    /\ (PassDone /\ ~passStart.safetyActive /\ safetyActive) =>
          Cardinality(ObjectsWith("error_M", ErrTimeout)) = 1
    /\ (PassDone /\ passStart.safetyActive) =>
          ObjectsWith("error_M", ErrTimeout) = {}

(***************************************************************************)
(* C6: Fail-safe liveness: whenever more than 1000 ms have elapsed since   *)
(* the last parsed message and the watchdog is not tripped, eventually the *)
(* thruster is at 1500, whatever arrives on the serial link in the         *)
(* meantime, lines that do not parse included.  (Stated here with the one  *)
(* exception the sketch intends: a message parsed in the meantime restarts *)
(* the interval.)                                                          *)
(***************************************************************************)
Overdue == thr.created /\ ~safetyActive /\ Elapsed > 1000

C6_FailSafeLiveness ==
    Overdue ~> ((thr.currentValue = 1500 /\ thr.micros = 1500) \/ Elapsed <= 1000)

(***************************************************************************)
(* C7: The watchdog comparison is evaluated exactly once in every pass of  *)
(* loop().                                                                 *)
(***************************************************************************)
C7_WatchdogEveryPass == PassDone => nWatchdog = 1

(***************************************************************************)
(* C8: A pass that begins with the watchdog tripped and processes a        *)
(* well-formed message ends with safetyActive false, whatever keys and     *)
(* values the message carries.                                             *)
(***************************************************************************)
C8_MessageRearms ==
    (PassDone /\ passHadLine /\ passLine \in WellFormedLines
        /\ passStart.safetyActive) => ~safetyActive

\* A message without any Thr_M key re-armed a tripped watchdog.
C8_Witness ==
    /\ Processed(UnknownKeyLine)
    /\ passStart.safetyActive
    /\ ~safetyActive

(***************************************************************************)
(* C9: A pass whose line fails JSON decoding emits exactly one telemetry   *)
(* object, which holds exactly one error entry, "JSON parsing failed.",    *)
(* leaves the thruster unchanged and does not call setValue.               *)
(***************************************************************************)
C9_ParseFailureReported ==
    (PassDone /\ passHadLine /\ passLine \in UnparsableLines) =>
        /\ sent = << <<Entry("deviceID", "Ard_M"), Entry("error_M", ErrParsing)>> >>
        /\ thr = passStart.thr
        /\ nSetValue = 0

\* An object cut short reached a thruster at full reverse.
C9_Witness ==
    /\ Processed(TruncatedLine)
    /\ passStart.thr.currentValue = 1100
    /\ thr.currentValue = 1100
    /\ Len(sent) = 1

(***************************************************************************)
(* C10: A pass that processes a well-formed message whose key is not a     *)
(* device of role M emits a telemetry object with the error "output device *)
(* ID is not valid" and leaves the thruster unchanged.                     *)
(***************************************************************************)
\* The text of return code -8 (README, "Ret Codes"), in the spellings of the
\* README and of the specification.
InvalidOutputIdTexts ==
    {"Output device ID is not valid", "Output device ID is not valid.",
     "output device ID is not valid", "output device ID is not valid."}

C10_UnknownKeyReported ==
    Processed(UnknownKeyLine) =>
        /\ \E text \in InvalidOutputIdTexts : ObjectsWith("error_M", text) # {}
        /\ thr = passStart.thr

(***************************************************************************)
(* C11: The interval of the watchdog counts from the last parsed message   *)
(* that addresses a device of role M: a pass that processes a well-formed  *)
(* message without any key of role M leaves the timestamp of the last      *)
(* message as it was, and if more than 1000 ms had elapsed since that      *)
(* timestamp the watchdog is tripped when the pass ends.                   *)
(***************************************************************************)
\* Time from the last message before the pass to the pass that just ended.
ElapsedAtPass == (Millis - passStart.lastMessage) % MillisModulus

C11_TimerCountsFromRoleValid ==
    (PassDone /\ passHadLine /\ passLine \in NoThrMLines) =>
        /\ lastMessage = passStart.lastMessage
        /\ ElapsedAtPass > 1000 => safetyActive

(***************************************************************************)
(* C12: If the identity byte is not 'M', the firmware never creates or     *)
(* attaches the thruster, never writes a value to an output, and never     *)
(* executes a pass of loop(): setValue is never called and the watchdog    *)
(* comparison is never evaluated.                                          *)
(***************************************************************************)
C12_MismatchNeverRuns ==
    eeprom # "M" =>
        /\ ~thr.created /\ thr.pin = 0 /\ thr.micros = 0
        /\ pc \in {"setup", "halted"}
        /\ passStart = NoPass /\ ~passHadLine
        /\ nSetValue = 0 /\ nWatchdog = 0

\* A node provisioned as Ard_T has run setup() of this sketch.
C12_Witness ==
    /\ eeprom = "T"
    /\ arduinoID = "Ard_T"
    /\ pc = "halted"
    /\ ~thr.created

(***************************************************************************)
(* C13: On a fatal identity mismatch the buffered mismatch error is never  *)
(* transmitted: all the node ever emits is the "Arduino Booting." status,  *)
(* the mismatch error stays in the telemetry buffer, and no step of the    *)
(* node follows, so this stays so for ever.                                *)
(***************************************************************************)
\* What a halted node has emitted and what it holds.
HaltedSilent ==
    /\ sent = << <<Entry("deviceID", arduinoID), Entry(StatusKey, StatusBooting)>> >>
    /\ messageContents = <<Entry(ErrorKey, ErrWrongArduino)>>

C13_MismatchErrorNeverSent ==
    [][/\ pc # "halted"
       /\ pc' = "halted" => HaltedSilent']_vars

\* A node provisioned as Ard_A halted with the error still buffered.
C13_Witness ==
    /\ pc = "halted"
    /\ eeprom = "A"
    /\ Len(sent) = 1
    /\ messageContents # <<>>

(***************************************************************************)
(* C14: Every call of sendAll emits exactly one object: the deviceID entry *)
(* followed by all the entries buffered since the previous flush, in the   *)
(* order they were buffered, and leaves the buffer empty; with nothing     *)
(* buffered the object holds deviceID only.                                *)
(***************************************************************************)
C14_FlushEmitsBuffered ==
    [][pc' = "sendAll" =>
          /\ sent' = Append(sent, <<Entry("deviceID", arduinoID)>> \o buffered)
          /\ buffered = <<>> => sent'[Len(sent')] = <<Entry("deviceID", arduinoID)>>
          /\ messageContents' = <<>>]_vars

\* A value and then an error were flushed in that order, and a second flush
\* with nothing buffered emitted deviceID alone.
C14_Witness ==
    /\ pc = "sendAll"
    /\ sent = << <<Entry("deviceID", "Ard_M"), Entry("Thr_M", "1900"),
                   Entry("error_M", ErrOutOfRange)>>,
                 <<Entry("deviceID", "Ard_M")>> >>
    /\ messageContents = <<>>

(***************************************************************************)
(* C15: Every pass of loop() sends exactly one telemetry object, which     *)
(* begins with deviceID, a pass in which no line was complete and the      *)
(* watchdog did not trip included.                                         *)
(***************************************************************************)
C15_OneObjectPerPass ==
    PassDone =>
        /\ Len(sent) = 1
        /\ sent[1][1] = Entry("deviceID", arduinoID)

(***************************************************************************)
(* C16: Once a terminator has been received and stringComplete is set,     *)
(* serialEvent() appends no further byte to inputString until loop() has   *)
(* consumed the line and cleared the flag: serialEvent() never runs with   *)
(* the flag set, the call that sets the flag leaves every byte behind the  *)
(* terminator in the receive buffer, and while the flag is set the line    *)
(* changes only by loop() emptying it and clearing the flag.               *)
(***************************************************************************)
C16_NoAppendWhileComplete ==
    [][/\ pc = "serialEvent" => ~stringComplete
       /\ (pc = "serialEvent" /\ stringComplete') =>
             \E t \in {LF, CR} : inputString' \o <<t>> \o rx' = inputString \o rx
       /\ (stringComplete /\ inputString' # inputString) =>
             (pc = "loop" /\ inputString' = <<>> /\ ~stringComplete')]_vars

\* A complete line waits for loop() while the first bytes of the next line
\* wait in the receive buffer.
C16_Witness ==
    /\ pc = "loop"
    /\ stringComplete
    /\ inputString = ThrMLine(maxValue)
    /\ rx # <<>>
    /\ rx[1] = LBrace

(***************************************************************************)
(* C17: The line buffer is bounded: whatever bytes are received, the       *)
(* length of inputString never exceeds a fixed maximum message size.  The  *)
(* sizes the sketch names for a message are the bytes reserved for the     *)
(* line and the capacity of the decode buffer; the larger is taken.        *)
(***************************************************************************)
MaxMessageSize ==
    IF ReservedLineBytes > JsonBufferCapacity
    THEN ReservedLineBytes ELSE JsonBufferCapacity

C17_LineBounded == LineBytes(inputString) <= MaxMessageSize

(***************************************************************************)
(* C18: In a pass of loop() that processes a well-formed message, dispatch *)
(* and its flush complete, and the timestamp of the last message is        *)
(* refreshed, before the watchdog comparison is evaluated: the pass calls  *)
(* setValue once, emits the one object of the dispatch, evaluates the      *)
(* comparison once with the timestamp at the current time, and does not    *)
(* trip the watchdog, however long the silence before it.                  *)
(***************************************************************************)
C18_NoTripInMessagePass ==
    (PassDone /\ passHadLine /\ passLine \in WellFormedLines) =>
        /\ nSetValue = 1 /\ nWatchdog = 1
        /\ lastMessage = Millis
        /\ ~safetyActive
        /\ episodeErrs = 0 /\ episodeOffs = 0
        /\ Len(sent) = 1
        /\ ObjectsWith("error_M", ErrTimeout) = {}

\* A command was processed by a pass that began more than 1000 ms after the
\* last message with the watchdog not yet tripped.
C18_Witness ==
    /\ Processed(ThrMLine(1900))
    /\ ElapsedAtPass > 1000
    /\ ~passStart.safetyActive
    /\ ~safetyActive
    /\ thr.currentValue = 1900

(***************************************************************************)
(* C19: A line that fails JSON parsing changes neither the state of the    *)
(* watchdog nor its timer: the pass that finds it leaves the timestamp of  *)
(* the last message as it was; a tripped watchdog stays tripped and no     *)
(* second timeout error is emitted; while no more than 1000 ms have        *)
(* elapsed safetyActive is as before the pass; and a trip that is due is   *)
(* not postponed: when more than 1000 ms have elapsed the watchdog is      *)
(* tripped at the end of the pass.                                         *)
(***************************************************************************)
C19_MalformedLeavesWatchdog ==
    (PassDone /\ passHadLine /\ passLine \in UnparsableLines) =>
        /\ lastMessage = passStart.lastMessage
        /\ passStart.safetyActive =>
              (safetyActive /\ ObjectsWith("error_M", ErrTimeout) = {})
        /\ ElapsedAtPass <= 1000 => safetyActive = passStart.safetyActive
        /\ ElapsedAtPass > 1000 => safetyActive

\* The part of C19 that the sketch keeps: the pass that finds a line that
\* does not parse changes neither safetyActive nor lastMessage and emits no
\* timeout error.
ParseFailureFrame ==
    (PassDone /\ passHadLine /\ passLine \in UnparsableLines) =>
        /\ lastMessage = passStart.lastMessage
        /\ safetyActive = passStart.safetyActive
        /\ ObjectsWith("error_M", ErrTimeout) = {}

(***************************************************************************)
(* C20: The watchdog trips only when the elapsed time strictly exceeds     *)
(* 1000 ms: a pass of loop() in which 1000 ms or less have elapsed since   *)
(* the last parsed message does not set safetyActive, emits no timeout     *)
(* error and does not force the thruster to neutral (without a message the *)
(* thruster is as before the pass, and turnOff is not called).             *)
(***************************************************************************)
C20_TripOnlyAboveLimit ==
    (PassDone /\ ElapsedAtPass <= 1000) =>
        /\ safetyActive => passStart.safetyActive
        /\ ObjectsWith("error_M", ErrTimeout) = {}
        /\ ~passHadLine => thr = passStart.thr
        /\ ~passStart.safetyActive => episodeOffs = 0

\* A pass exactly 1000 ms after the last message left a thruster at full
\* forward running.
C20_Witness ==
    /\ PassDone /\ ~passHadLine
    /\ nWatchdog = 1
    /\ ElapsedAtPass = 1000
    /\ ~passStart.safetyActive /\ ~safetyActive
    /\ thr.currentValue = 1900 /\ thr.micros = 1900

(***************************************************************************)
(* Counted runs: the node with a host that sends commands and empty lines, *)
(* and counters over the whole run.  A silence episode is an interval      *)
(* between two parsed messages (or from boot, or to the end of the run) in *)
(* which a pass of loop() ends more than 1000 ms after the last parsed     *)
(* message; it is counted at the first such pass.                          *)
(***************************************************************************)
CountedLoop ==
    /\ LoopBody
    /\ LET parsed == stringComplete /\ parseObject(inputString).success
           timeouts == {i \in 1..Len(sent') :
                          \E j \in 1..Len(sent'[i]) :
                             sent'[i][j] = Entry("error_M", ErrTimeout)}
           silent == ((Millis - lastMessage') % MillisModulus) > SafetyLimit
           counted == episodeSilent /\ ~parsed
       IN /\ totalTimeouts' = totalTimeouts + Cardinality(timeouts)
          /\ totalLines' = totalLines + (IF stringComplete THEN 1 ELSE 0)
          /\ totalParsed' = totalParsed + (IF parsed THEN 1 ELSE 0)
          /\ totalSilences' = totalSilences + (IF silent /\ ~counted THEN 1 ELSE 0)
          /\ episodeSilent' = (silent \/ counted)
          /\ lastMessageAt' = IF parsed THEN clock ELSE lastMessageAt

CountedHostSend(line) ==
    /\ totalLines < MaxMessages
    /\ HostSend(line, <<LF>>, Len(line) + 1)

EpisodeNext ==
    \/ Setup
    \/ CountedLoop
    \/ SerialEventRun
    \/ \E line \in LiveLines : CountedHostSend(line)
    \/ \E d \in TickSteps : Tick(d)

EpisodeSpec == Init /\ [][EpisodeNext]_vars

(***************************************************************************)
(* C21: Silence episodes are independent: over any run the number of       *)
(* timeout errors emitted equals the number of silence episodes and never  *)
(* exceeds the number of well-formed messages received plus one, and each  *)
(* pass that trips the watchdog, the first time or after a message has     *)
(* re-armed it, emits exactly one timeout error and leaves the thruster at *)
(* 1500.                                                                   *)
(***************************************************************************)
C21_EpisodesIndependent ==
    /\ totalTimeouts = totalSilences
    /\ totalTimeouts <= totalParsed + 1
    /\ (PassDone /\ ~passStart.safetyActive /\ safetyActive) =>
          /\ Cardinality(ObjectsWith("error_M", ErrTimeout)) = 1
          /\ thr.currentValue = 1500 /\ thr.micros = 1500

\* The part of C21 that the sketch keeps: no more timeout errors than
\* silence episodes, nor than parsed messages plus one.
TimeoutsWithinEpisodes ==
    /\ totalTimeouts <= totalSilences
    /\ totalTimeouts <= totalParsed + 1

(***************************************************************************)
(* C22: An unknown key does not abort the processing of the other keys of  *)
(* the message: a pass that processes a well-formed message holding an     *)
(* unregistered key and an in-range Thr_M value v, in either order, calls  *)
(* setValue once and leaves the thruster's value at v.                     *)
(***************************************************************************)
MixedCommands == {c \in ThrMCommands : c.line \in MixedLines}

C22_UnknownKeyDoesNotAbort ==
    \A c \in MixedCommands :
        (Processed(c.line) /\ InRange(c.v)) =>
            /\ nSetValue = 1
            /\ thr.currentValue = c.v /\ thr.micros = c.v

\* The unregistered key came first and the Thr_M value behind it reversed a
\* thruster running at full forward.
C22_Witness ==
    /\ Processed(TwoKeyLine("Thr_FP", 1500, "Thr_M", minValue))
    /\ passStart.thr.currentValue = 1900
    /\ thr.currentValue = 1100

(***************************************************************************)
(* C23: Between passes of loop(), safetyActive implies that the thruster's *)
(* current value, and the pulse written, are 1500: while the watchdog is   *)
(* tripped the actuator stays at neutral, so the thruster leaves neutral   *)
(* only in a pass that also clears safetyActive.                           *)
(***************************************************************************)
C23_TrippedMeansNeutral ==
    safetyActive => (thr.currentValue = 1500 /\ thr.micros = 1500)

\* The trip stopped a thruster at full forward, and a later pass that found
\* a line that does not parse left it stopped and tripped.
C23_Witness ==
    /\ Processed(TruncatedLine)
    /\ passStart.safetyActive /\ safetyActive
    /\ thr.currentValue = 1500
    /\ episodeOffs = 1

(***************************************************************************)
(* C24: When the identity is 'M', setup() emits exactly three telemetry    *)
(* objects, in this order: the status "Arduino Booting.", an object that   *)
(* holds deviceID "Ard_M" only, and the status "Arduino Active."; nothing  *)
(* is emitted before setup(), and from the end of setup() until the first  *)
(* pass of loop() starts the thruster exists with its value, and the pulse *)
(* written, at 1500.                                                       *)
(***************************************************************************)
BootObjects ==
    << <<Entry("deviceID", "Ard_M"), Entry("status_M", StatusBooting)>>,
       <<Entry("deviceID", "Ard_M")>>,
       <<Entry("deviceID", "Ard_M"), Entry("status_M", StatusActive)>> >>

\* setup() has returned and the first pass of loop() has not started: what
\* setup() printed is still the record of the last run.
FirstPassPending == pc = "loop" /\ sent # <<>>

C24_BootSequence ==
    [][/\ (pc = "setup" /\ eeprom = "M") =>
             (sent = <<>> /\ pc' = "loop" /\ sent' = BootObjects)
       /\ FirstPassPending' =>
             /\ sent' = BootObjects
             /\ thr'.created /\ thr'.pin = 3
             /\ thr'.currentValue = 1500 /\ thr'.micros = 1500]_vars

\* The first pass is about to start, 1001 ms after power-up, with a line
\* already waiting in the receive buffer.
C24_Witness ==
    /\ FirstPassPending
    /\ sent = BootObjects
    /\ clock = 1001
    /\ rx # <<>>
    /\ thr.currentValue = 1500

(***************************************************************************)
(* C25: If nothing is received after boot, the watchdog trips exactly      *)
(* once, in the first pass of loop() that runs more than 1000 ms after     *)
(* power-up, and emits one timeout error: as long as nothing has been      *)
(* received, every pass that ends no later than 1000 ms after power-up     *)
(* leaves the watchdog armed with no timeout error emitted so far, and     *)
(* every pass that ends later leaves it tripped with exactly one timeout   *)
(* error emitted so far and the thruster at 1500.                          *)
(***************************************************************************)
\* No byte has reached the node since power-up.
NothingReceived ==
    /\ totalLines = 0
    /\ wire = <<>> /\ rx = <<>>
    /\ inputString = <<>> /\ ~stringComplete

C25_BootTripsOnce ==
    (PassDone /\ NothingReceived) =>
        IF clock > 1000
        THEN /\ safetyActive
             /\ totalTimeouts = 1
             /\ thr.currentValue = 1500 /\ thr.micros = 1500
        ELSE /\ ~safetyActive
             /\ totalTimeouts = 0

\* A pass well after the trip, with nothing received: still one error.
C25_Witness ==
    /\ PassDone /\ NothingReceived
    /\ clock > 2000
    /\ passStart.safetyActive
    /\ totalTimeouts = 1
    /\ sent = <<>>

(***************************************************************************)
(* C26: The telemetry buffer is empty at the end of every pass of loop():  *)
(* every entry buffered in a pass is flushed in that pass, so between      *)
(* passes, once setup() has returned, messageContents holds nothing and no *)
(* entry is carried over into the object of a later pass.                  *)
(***************************************************************************)
C26_BufferEmptyBetweenPasses ==
    pc \in {"loop", "serialEvent"} => messageContents = <<>>

\* The pass that tripped the watchdog emitted the timeout error it buffered.
C26_Witness ==
    /\ PassDone
    /\ ~passStart.safetyActive /\ safetyActive
    /\ sent = << <<Entry("deviceID", "Ard_M"), Entry("error_M", ErrTimeout)>> >>
    /\ messageContents = <<>>

(***************************************************************************)
(* C27: Every telemetry object the role-M node emits holds at most one     *)
(* error entry, so the key error_M is never duplicated within one object,  *)
(* and the key of an error entry is "error_" followed by the role          *)
(* character that ends the deviceID of the object.                         *)
(***************************************************************************)
ErrorKeys == {"error_" \o r : r \in RoleCodes}
ErrorEntries(object) == {j \in 1..Len(object) : object[j].key \in ErrorKeys}

C27_OneErrorPerObject ==
    eeprom = "M" =>
        \A i \in 1..Len(sent) :
            /\ Cardinality(ErrorEntries(sent[i])) <= 1
            /\ sent[i][1].key = "deviceID"
            /\ \A j \in ErrorEntries(sent[i]) :
                  \E r \in RoleCodes :
                      /\ sent[i][j].key = "error_" \o r
                      /\ sent[i][1].val = "Ard_" \o r

\* A line too large for the decode buffer was reported in an object with
\* the one entry error_M.
C27_Witness ==
    /\ Processed(OversizedLine)
    /\ eeprom = "M"
    /\ sent = << <<Entry("deviceID", "Ard_M"), Entry("error_M", ErrParsing)>> >>

(***************************************************************************)
(* C28: Two consecutive terminators (a line ended by "\r\n") are framed as *)
(* a complete line followed by an empty line: serialEvent() completes the  *)
(* line at the carriage return and leaves the line feed in the receive     *)
(* buffer; a terminator read into an empty line buffer completes an empty  *)
(* line; and the pass of loop() that finds the empty line emits one object *)
(* with the error "JSON parsing failed.", leaves the thruster as it was    *)
(* and changes neither lastMessage nor safetyActive.                       *)
(***************************************************************************)
C28_CrLfFraming ==
    [][/\ \A k \in 1..(Len(rx) - 1) :
             (/\ pc = "serialEvent"
              /\ rx[k] = CR /\ rx[k + 1] = LF
              /\ \A j \in 1..(k - 1) : rx[j].t # "eol") =>
                 /\ stringComplete'
                 /\ inputString' = inputString \o SubSeq(rx, 1, k - 1)
                 /\ rx' = SubSeq(rx, k + 1, Len(rx))
       /\ (pc = "serialEvent" /\ rx # <<>> /\ rx[1].t = "eol"
             /\ inputString = <<>>) =>
             (stringComplete' /\ inputString' = <<>> /\ rx' = Tail(rx))
       /\ (pc = "loop" /\ pc' = "serialEvent" /\ stringComplete
             /\ inputString = <<>>) =>
             /\ sent' = << <<Entry("deviceID", "Ard_M"), Entry("error_M", ErrParsing)>> >>
             /\ thr' = thr
             /\ lastMessage' = lastMessage
             /\ safetyActive' = safetyActive
             /\ ~stringComplete']_vars

\* The empty line behind a command was processed in the pass after the
\* command's: the thruster still runs at full forward and the timestamp is
\* the command's.
C28_Witness ==
    /\ Processed(EmptyLine)
    /\ passStart.thr.currentValue = 1900 /\ thr.currentValue = 1900
    /\ lastMessage = passStart.lastMessage /\ lastMessage > 0
    /\ Elapsed = 0
    /\ sent = << <<Entry("deviceID", "Ard_M"), Entry("error_M", ErrParsing)>> >>

(***************************************************************************)
(* Runs across the wrap-around of millis(): counted runs in which time     *)
(* advances past 2^MillisBits ms since power-up.                           *)
(***************************************************************************)
WrapMaxTime == MillisModulus + 2 * SafetyLimit + 2

WrapTick(d) ==
    /\ pc = "loop"
    /\ clock + d <= WrapMaxTime
    /\ clock' = clock + d
    /\ UNCHANGED <<eeprom, pc, wire, rx, nodeVars, obsVars>>

WrapNext ==
    \/ Setup
    \/ CountedLoop
    \/ SerialEventRun
    \/ \E line \in LiveLines : CountedHostSend(line)
    \/ \E d \in TickSteps : WrapTick(d)

WrapSpec == Init /\ [][WrapNext]_vars

(***************************************************************************)
(* C29: The elapsed time of the watchdog is correct across wrap-around of  *)
(* the millisecond counter: the stored timestamp is the time of the last   *)
(* message modulo 2^w, and whenever the true time since the last message   *)
(* is below 2^w, (now - lastMessage) mod 2^w equals it; so a pass that     *)
(* evaluates the comparison trips the watchdog only if the true elapsed    *)
(* time exceeds 1000 ms, and leaves it tripped whenever it does.           *)
(***************************************************************************)
TrueElapsed == clock - lastMessageAt

C29_ElapsedAcrossWrap ==
    /\ lastMessage = lastMessageAt % MillisModulus
    /\ TrueElapsed < MillisModulus =>
          /\ Elapsed = TrueElapsed
          /\ (PassDone /\ nWatchdog = 1 /\ TrueElapsed > 1000) => safetyActive
          /\ (PassDone /\ ~passStart.safetyActive /\ safetyActive) =>
                TrueElapsed > 1000

\* A message parsed before the wrap, and the trip 1001 ms later, after it.
C29_Witness ==
    /\ PassDone
    /\ 0 < lastMessageAt /\ lastMessageAt < MillisModulus
    /\ clock >= MillisModulus
    /\ TrueElapsed = 1001
    /\ ~passStart.safetyActive /\ safetyActive
    /\ thr.currentValue = 1500

\* A message parsed before the wrap, and a pass after it that does not trip.
WrapNoSpuriousTrip ==
    /\ PassDone /\ nWatchdog = 1
    /\ 0 < lastMessageAt /\ lastMessageAt < MillisModulus
    /\ clock >= MillisModulus
    /\ TrueElapsed <= 1000
    /\ ~safetyActive
    /\ thr.currentValue = 1900

(***************************************************************************)
(* The power-converter diagnostic menu:                                    *)
(* src/arduino-master/power-converter/power-converter-dedicated/           *)
(* power-converter-dedicated.ino.  The sketch has the same line framer     *)
(* (serialEvent, lines 324-335) and the same two globals, inputString and  *)
(* stringComplete; a byte of a line is one unit, and sent holds what the   *)
(* last run of setup() or loop() did: the menu actions it called, by name  *)
(* and arguments, in order.  What the I2C device answers changes what an   *)
(* action prints, not whether it returns.                                  *)
(***************************************************************************)
Chr(c) == [t |-> "chr", s |-> c, n |-> 0]

\* The text of a line of bytes.
RECURSIVE TextOf(_)
TextOf(units) == IF units = <<>> THEN "" ELSE Head(units).s \o TextOf(Tail(units))

\* Lines a user types: the options "0" to "14", "15", a letter and nothing.
MenuLines ==
    {<<Chr(d)>> : d \in {"0", "1", "2", "3", "4", "5", "6", "7", "8", "9", "x"}}
    \cup {<<Chr("1"), Chr(d)>> : d \in {"0", "1", "2", "3", "4", "5"}}
    \cup {<<>>}

Call(fn, args) == [fn |-> fn, args |-> args]
ShowMenu == Call("showMenu", <<>>)

\* The if/else chain of loop(): the action of an input line.
MenuAction(text) ==
    CASE text = "0" -> Call("testSignal", <<>>)
      [] text = "1" -> Call("writeSignal", <<3>>)
      [] text = "2" -> Call("readSignal", <<136, 2>>)
      [] text = "3" -> Call("scanForAddresses", <<>>)
      [] text = "4" -> Call("monitorStatus", <<>>)
      [] text = "5" -> Call("readSignal", <<139, 2>>)
      [] text = "6" -> Call("readSignal", <<153, 2>>)
      [] text = "7" -> Call("writeSignal", <<1, 128>>)
      [] text = "8" -> Call("readSignal", <<1, 1>>)
      [] text = "9" -> Call("readSignal", <<121, 2>>)
      [] text = "10" -> Call("readSignal", <<120, 1>>)
      [] text = "11" -> Call("readSignal", <<123, 1>>)
      [] text = "12" -> Call("readSignal", <<124, 1>>)
      [] text = "13" -> Call("readSignal", <<125, 1>>)
      [] text = "14" -> Call("readSignal", <<126, 1>>)
      [] OTHER -> Call("Unknown option", <<>>)

\* monitorStatus() is while(true){...}: it does not return.
Returns(call) == call.fn # "monitorStatus"

MenuInit == Init

MenuFrame ==
    UNCHANGED <<eeprom, clock, wire, rx, arduinoID, lastMessage, safetyActive,
                messageContents, thr, nSetValue, nWatchdog, episodeErrs,
                episodeOffs, buffered, runVars>>

MenuSetup ==
    /\ pc = "setup"
    /\ sent' = <<Call("scanForAddresses", <<>>), ShowMenu>>
    /\ pc' = "loop"
    /\ UNCHANGED <<inputString, stringComplete, passStart, passLine, passHadLine>>
    /\ MenuFrame

\* One pass of loop() of the menu; a pass that calls monitorStatus() never
\* ends.
MenuLoop ==
    /\ pc = "loop"
    /\ passStart' = NoPass
    /\ passHadLine' = stringComplete
    /\ passLine' = IF stringComplete THEN inputString ELSE <<>>
    /\ IF ~stringComplete
       THEN /\ sent' = <<>>
            /\ pc' = "serialEvent"
            /\ UNCHANGED <<inputString, stringComplete>>
       ELSE LET action == MenuAction(TextOf(inputString)) IN
            IF Returns(action)
            THEN /\ sent' = <<action, ShowMenu>>
                 /\ stringComplete' = FALSE
                 /\ inputString' = <<>>
                 /\ pc' = "serialEvent"
            ELSE /\ sent' = <<action>>
                 /\ pc' = "monitorStatus"
                 /\ UNCHANGED <<inputString, stringComplete>>
    /\ MenuFrame

MenuNext ==
    \/ MenuSetup
    \/ MenuLoop
    \/ SerialEventRun
    \/ \E line \in MenuLines, term \in Terminators :
          \E k \in SplitPoints(line, term) : HostSend(line, term, k)
    \/ Arrive

MenuSpec == MenuInit /\ [][MenuNext]_vars

(***************************************************************************)
(* C30: In the power-converter menu every completed input line leads to    *)
(* exactly one menu action ("Unknown option" for a line that is none of    *)
(* "0" to "14"), after which inputString and stringComplete are cleared    *)
(* and the menu is shown again, so that the node accepts the next line:    *)
(* a pass of loop() that found a complete line has called the action of    *)
(* that line and then showMenu, and has returned with the line buffer      *)
(* empty and the flag clear.                                               *)
(***************************************************************************)
C30_MenuAcceptsNextLine ==
    (pc \in {"serialEvent", "monitorStatus"} /\ passHadLine) =>
        /\ pc = "serialEvent"
        /\ sent = <<MenuAction(TextOf(passLine)), ShowMenu>>
        /\ inputString = <<>> /\ ~stringComplete

\* The part of C30 that the sketch keeps: every option but "4" returns to
\* the menu with the line consumed.
MenuReturnsButMonitor ==
    (pc \in {"serialEvent", "monitorStatus"} /\ passHadLine
        /\ TextOf(passLine) # "4") =>
        /\ pc = "serialEvent"
        /\ sent = <<MenuAction(TextOf(passLine)), ShowMenu>>
        /\ inputString = <<>> /\ ~stringComplete

=============================================================================
